---- MODULE Spec2Model ----
(***************************************************************************)
(* configService (src/app/core/config.service.js): one-shot loading of     *)
(* the application configuration, per language, merged over the defaults. *)
(*                                                                         *)
(* Attribute texts are sequences of tokens; JSON values are tagged         *)
(* records.  Promises are modelled by their state ("pending",              *)
(* "fulfilled", "rejected") and every promise callback is a step of its    *)
(* own, so that callbacks of different fetches interleave freely.          *)
(***************************************************************************)
EXTENDS Integers, Sequences, FiniteSets, TLC

VARIABLES
    configAttr,         \* $rootElement.attr('th-config')
    langAttr,           \* $rootElement.attr('rv-langs')
    initializePromise,  \* 0 == undefined, else the index of the handle in promises
    promises,           \* state of every handle created by initialize()
    allState,           \* per handle: state of its $q.all(promises).then(...) join
    isInitialized,
    data,               \* service.data: language key -> merged config
    writes,             \* language key -> number of assignments to service.data[key]
    fetches,            \* every $http.get issued, with the position of its callback chain
                        \* (afterReject: its then callback ran with the handle rejected)
    ready,              \* the handle returned by a call of ready(), with its position
    readyThrew,         \* a call of ready() threw instead of returning a handle
    returned,           \* the handles returned by the calls of initialize()
    initCalls,          \* number of calls of initialize() so far, up to MaxInitCalls
    current             \* result of the last getCurrent()

vars == <<configAttr, langAttr, initializePromise, promises, allState, isInitialized,
          data, writes, fetches, ready, readyThrew, returned, initCalls, current>>

-----------------------------------------------------------------------------
(* Bounds of the model *)
MaxInitCalls == 2
MaxHandles == 2
MaxExtra == 2

-----------------------------------------------------------------------------
(* JSON values *)
Null == [t |-> "null"]
Bool(b) == [t |-> "bool", b |-> b]
Num(n) == [t |-> "num", n |-> n]
Str(s) == [t |-> "str", s |-> s]
Arr(a) == [t |-> "arr", a |-> a]
Obj(o) == [t |-> "obj", o |-> o]
EmptyObj == Obj([k \in {} |-> Null])

\* JavaScript truthiness of a parsed value
Truthy(v) ==
    CASE v.t = "null" -> FALSE
      [] v.t = "bool" -> v.b
      [] v.t = "num" -> v.n # 0
      [] v.t = "str" -> v.s # ""
      [] OTHER -> TRUE

\* angular.isObject: objects and arrays
IsObject(v) == v.t \in {"obj", "arr"}

-----------------------------------------------------------------------------
(* Tokens of an attribute text *)
P(c) == [k |-> "punct", v |-> c]
Lit(w) == [k |-> "lit", v |-> w]
NumTok(d) == [k |-> "num", v |-> d]
StrTok(s) == [k |-> "str", v |-> s]
Raw(s) == [k |-> "raw", v |-> s]

NumOf(d) == IF d = "0" THEN 0 ELSE 1

ParseFail == [ok |-> FALSE, val |-> Null, rest |-> <<>>]
ParseOk(v, r) == [ok |-> TRUE, val |-> v, rest |-> r]

RECURSIVE ParseValue(_), ParseElements(_, _), ParseMembers(_, _)

\* JSON.parse, one value from the front of the token sequence
ParseValue(s) ==
    IF s = <<>> THEN ParseFail
    ELSE LET h == Head(s)
             r == Tail(s)
         IN CASE h.k = "lit" /\ h.v = "null" -> ParseOk(Null, r)
              [] h.k = "lit" /\ h.v = "true" -> ParseOk(Bool(TRUE), r)
              [] h.k = "lit" /\ h.v = "false" -> ParseOk(Bool(FALSE), r)
              [] h.k = "num" -> ParseOk(Num(NumOf(h.v)), r)
              [] h.k = "str" -> ParseOk(Str(h.v), r)
              [] h.k = "punct" /\ h.v = "[" ->
                    IF r # <<>> /\ Head(r) = P("]")
                    THEN ParseOk(Arr(<<>>), Tail(r))
                    ELSE ParseElements(r, <<>>)
              [] h.k = "punct" /\ h.v = "{" ->
                    IF r # <<>> /\ Head(r) = P("}")
                    THEN ParseOk(EmptyObj, Tail(r))
                    ELSE ParseMembers(r, [k \in {} |-> Null])
              [] OTHER -> ParseFail

\* value ("," value)* "]"
ParseElements(s, acc) ==
    LET e == ParseValue(s)
    IN IF ~e.ok \/ e.rest = <<>> THEN ParseFail
       ELSE IF Head(e.rest) = P("]") THEN ParseOk(Arr(Append(acc, e.val)), Tail(e.rest))
       ELSE IF Head(e.rest) = P(",") THEN ParseElements(Tail(e.rest), Append(acc, e.val))
       ELSE ParseFail

\* string ":" value ("," string ":" value)* "}" ; a repeated key keeps the last value
ParseMembers(s, acc) ==
    IF Len(s) < 3 \/ s[1].k # "str" \/ s[2] # P(":") THEN ParseFail
    ELSE LET e == ParseValue(SubSeq(s, 3, Len(s)))
             key == s[1].v
             acc2 == [k \in DOMAIN acc \cup {key} |-> IF k = key THEN e.val ELSE acc[k]]
         IN IF ~e.ok \/ e.rest = <<>> THEN ParseFail
            ELSE IF Head(e.rest) = P("}") THEN ParseOk(Obj(acc2), Tail(e.rest))
            ELSE IF Head(e.rest) = P(",") THEN ParseMembers(Tail(e.rest), acc2)
            ELSE ParseFail

\* angular.fromJson(text): ok = FALSE stands for the SyntaxError it throws
fromJson(text) ==
    LET p == ParseValue(text)
    IN IF p.ok /\ p.rest = <<>> THEN [ok |-> TRUE, val |-> p.val]
       ELSE [ok |-> FALSE, val |-> Null]

-----------------------------------------------------------------------------
(* angular.merge *)
IdxKey(i) == CASE i = 1 -> "0" [] i = 2 -> "1" [] i = 3 -> "2" [] OTHER -> "3"

\* the enumerable properties of an object or an array
Props(v) ==
    IF v.t = "obj" THEN v.o
    ELSE [k \in {IdxKey(i) : i \in 1..Len(v.a)} |->
             v.a[CHOOSE i \in 1..Len(v.a) : IdxKey(i) = k]]

\* faulty variant of Extend: a shallow copy of src's properties (angular.extend)
ExtendShallow(dst, src) ==
    IF ~IsObject(src) THEN dst
    ELSE Obj([k \in DOMAIN Props(dst) \cup DOMAIN Props(src) |->
                 IF k \in DOMAIN Props(src) THEN Props(src)[k] ELSE Props(dst)[k]])

RECURSIVE Extend(_, _)

\* baseExtend(dst, [src], true): src's properties are copied into dst, an object or
\* array property recursively into dst's property of the same key (which is first
\* replaced by an empty object or array when it is not one), any other property
\* by assignment; a src that is no object is skipped.
Extend(dst, src) ==
    LET Sub(hasKey, dstv, srcv) ==
            IF IsObject(srcv)
            THEN Extend(IF hasKey /\ IsObject(dstv) THEN dstv
                        ELSE IF srcv.t = "arr" THEN Arr(<<>>) ELSE EmptyObj,
                        srcv)
            ELSE srcv
    IN IF ~IsObject(src) THEN dst
       ELSE IF dst.t = "arr" /\ src.t = "arr"
       THEN LET n == IF Len(dst.a) > Len(src.a) THEN Len(dst.a) ELSE Len(src.a)
            IN Arr([i \in 1..n |->
                       IF i <= Len(src.a)
                       THEN Sub(i <= Len(dst.a), IF i <= Len(dst.a) THEN dst.a[i] ELSE Null,
                                src.a[i])
                       ELSE dst.a[i]])
       ELSE LET d == Props(dst)
                sp == Props(src)
            IN Obj([k \in DOMAIN d \cup DOMAIN sp |->
                       IF k \in DOMAIN sp
                       THEN Sub(k \in DOMAIN d, IF k \in DOMAIN d THEN d[k] ELSE Null, sp[k])
                       ELSE d[k]])

\* the injected configDefaults
configDefaults ==
    Obj("title" :> Str("default") @@ "map" :> Obj("zoom" :> Num(1))
        @@ "layers" :> Arr(<<Num(1), Num(1)>>))

\* angular.merge({}, configDefaults, config)
MergedConfig(config) == Extend(Extend(EmptyObj, configDefaults), config)

\* configInitialized(config, lang) applied to the store d
configInitialized(d, config, lang) ==
    [k \in DOMAIN d \cup {lang} |-> IF k = lang THEN MergedConfig(config) ELSE d[k]]

\* the assignment counter after configInitialized(config, lang)
CountWrite(w, lang) == [w EXCEPT ![lang] = @ + 1]

-----------------------------------------------------------------------------
(* The declared attributes *)
NoAttr == [present |-> FALSE, text |-> <<>>]
Attr(text) == [present |-> TRUE, text |-> text]

\* truthiness of an attribute value: undefined and "" are falsy
AttrTruthy(a) == a.present /\ a.text # <<>>

LangKeys == {"en", "fr"}

InlineText == <<P("{"), StrTok("title"), P(":"), StrTok("inline"), P("}")>>
\* {"map":{"center":1},"layers":[0]}
InlineNestedText ==
    <<P("{"), StrTok("map"), P(":"), P("{"), StrTok("center"), P(":"), NumTok("1"), P("}"),
      P(","), StrTok("layers"), P(":"), P("["), NumTok("0"), P("]"), P("}")>>
\* {"map":"flat","title":{"short":"x"}}
InlineReplacingText ==
    <<P("{"), StrTok("map"), P(":"), StrTok("flat"), P(","), StrTok("title"), P(":"),
      P("{"), StrTok("short"), P(":"), StrTok("x"), P("}"), P("}")>>
TemplateText == <<Raw("cfg."), Raw("$LANG"), Raw(".json")>>

\* th-config: absent, empty, an inline JSON object (flat, nested with an array,
\* or replacing values of another kind), inline JSON with a falsy value, or a URL
\* template (which is not JSON)
ConfigAttrs ==
    { NoAttr,
      Attr(<<>>),
      Attr(InlineText),
      Attr(InlineNestedText),
      Attr(InlineReplacingText),
      Attr(<<Lit("null")>>),
      Attr(TemplateText) }

LangList(codes) ==
    <<P("[")>> \o
    (IF codes = <<>> THEN <<>>
     ELSE <<StrTok(codes[1])>> \o
          (IF Len(codes) > 1 THEN <<P(","), StrTok(codes[2])>> ELSE <<>>)) \o
    <<P("]")>>

\* rv-langs: absent, a JSON array of language codes (one code, two codes, a
\* repeated code, no code), or a text that is not JSON
LangAttrs ==
    { NoAttr,
      Attr(LangList(<<"en">>)),
      Attr(LangList(<<"en", "fr">>)),
      Attr(LangList(<<"en", "en">>)),
      Attr(LangList(<<>>)),
      Attr(<<Raw("en,fr")>>) }

\* faulty variant of Replace: the placeholder is left in the URL
ReplaceNothing(text, lang) == text

\* String.prototype.replace('$LANG', lang): the first occurrence only
RECURSIVE Replace(_, _)
Replace(text, lang) ==
    IF text = <<>> THEN <<>>
    ELSE IF Head(text) = Raw("$LANG") THEN <<Raw(lang)>> \o Tail(text)
    ELSE <<Head(text)>> \o Replace(Tail(text), lang)

\* faulty variant of DefaultLangs: the default list misses "fr"
OnlyEnglish == <<"en">>

DefaultLangs == <<"en", "fr">>

\* langs after lines 86-97: the parsed language list, or the default
ResolvedLangs ==
    LET p == fromJson(langAttr.text)
    IN IF AttrTruthy(langAttr) /\ p.ok /\ Truthy(p.val)
       THEN [i \in 1..Len(p.val.a) |-> p.val.a[i].s]
       ELSE DefaultLangs

-----------------------------------------------------------------------------
(* The collaborators' inputs *)

\* response.data of a successful $http.get: a config object, or nothing
ResponseBodies == { Obj("title" :> Str("fetched")), Null }

\* language tags reported by $translate, one token per subtag and separator
LanguageTags == { <<"en">>, <<"en", "-", "CA">> }
ProposedLanguages == { NoAttr, Attr(<<>>), Attr(<<"fr", "-", "CA">>) }

\* tag.split('-')[0]
PrimarySubtag(tag) == IF tag = <<>> \/ Head(tag) = "-" THEN "" ELSE Head(tag)

NoResult == [key |-> "", found |-> FALSE, value |-> Null]

-----------------------------------------------------------------------------
(* Promises *)

\* faulty variant of Settle: a later fulfill() or reject() settles the promise again
SettleAgain(ps, h, s) == [ps EXCEPT ![h] = s]

\* fulfill() / reject() of a $q promise: only the first settlement takes effect
Settle(ps, h, s) == IF ps[h] = "pending" THEN [ps EXCEPT ![h] = s] ELSE ps

Settled(s) == s # "pending"

\* ready() not called yet
NotCalled == [h |-> 0, extra |-> <<>>, stage |-> "notCalled", state |-> "pending"]

-----------------------------------------------------------------------------
Init ==
    /\ configAttr \in ConfigAttrs
    /\ langAttr \in LangAttrs
    /\ initializePromise = 0
    /\ promises = <<>>
    /\ allState = <<>>
    /\ isInitialized = FALSE
    /\ data = [k \in {} |-> Null]
    /\ writes = [k \in LangKeys |-> 0]
    /\ fetches = <<>>
    /\ ready = NotCalled
    /\ readyThrew = FALSE
    /\ returned = {}
    /\ initCalls = 0
    /\ current = NoResult

-----------------------------------------------------------------------------
(* initialize() *)

\* faulty variant of AlreadyCalled: the stored handle is never reused
NeverMemoized == FALSE

\* line 60: a handle was stored by an earlier call
AlreadyCalled == initializePromise # 0

\* line 102: !configJson, where configJson stays undefined when the parse threw
NeedsFetch(parsed) == ~(parsed.ok /\ Truthy(parsed.val))

\* lines 104-118: one $http.get per entry of langs, all issued by the map
IssuedFetches(h, langs) ==
    [i \in 1..Len(langs) |->
        [lang |-> langs[i], url |-> Replace(configAttr.text, langs[i]), h |-> h,
         stage |-> "inflight", ok |-> FALSE, body |-> Null, afterReject |-> FALSE]]

Initialize ==
    /\ initCalls' = IF initCalls < MaxInitCalls THEN initCalls + 1 ELSE initCalls
    /\ IF AlreadyCalled
       THEN /\ returned' = returned \cup {initializePromise}
            /\ UNCHANGED <<initializePromise, promises, allState, data, writes, fetches>>
       ELSE LET h == Len(promises) + 1
                parsed == fromJson(configAttr.text)
            IN /\ Len(promises) < MaxHandles
               /\ initializePromise' = h
               /\ returned' = returned \cup {h}
               /\ IF isInitialized
                  THEN /\ promises' = Append(promises, "fulfilled")
                       /\ allState' = Append(allState, "none")
                       /\ UNCHANGED <<data, writes, fetches>>
                  ELSE IF AttrTruthy(configAttr)
                  THEN /\ promises' = Append(promises, "pending")
                       /\ allState' = Append(allState, "waiting")
                       /\ data' = IF parsed.ok
                                  THEN configInitialized(data, parsed.val, "en")
                                  ELSE data
                       /\ writes' = IF parsed.ok THEN CountWrite(writes, "en") ELSE writes
                       /\ fetches' = IF NeedsFetch(parsed)
                                     THEN fetches \o IssuedFetches(h, ResolvedLangs)
                                     ELSE fetches
                  ELSE /\ promises' = Append(promises, "pending")
                       /\ allState' = Append(allState, "none")
                       /\ data' = configInitialized(data, EmptyObj, "en")
                       /\ writes' = CountWrite(writes, "en")
                       /\ UNCHANGED fetches
    /\ UNCHANGED <<configAttr, langAttr, isInitialized, ready, readyThrew, current>>

-----------------------------------------------------------------------------
(* The callback chain of one fetch: $http.get(url).then(store).catch(reject) *)

\* the transport settles the request
HttpRespond(i, ok, body) ==
    /\ fetches[i].stage = "inflight"
    /\ fetches' = [fetches EXCEPT ![i].stage = "responded", ![i].ok = ok,
                                  ![i].body = IF ok THEN body ELSE Null]
    /\ UNCHANGED <<configAttr, langAttr, initializePromise, promises, allState,
                   isInitialized, data, writes, ready, readyThrew, returned,
                   initCalls, current>>

\* faulty variant of HasData: every successful response is stored
StoresAnyResponse(f) == f.ok

\* faulty variant of HasData: a response is dropped once the handle has rejected
HasDataUnlessRejected(f) == f.ok /\ Truthy(f.body) /\ promises[f.h] # "rejected"

\* lines 109-111: the response carries data
HasData(f) == f.ok /\ Truthy(f.body)

\* lines 108-112: the then callback, skipped when the request failed
FetchThen(i) ==
    /\ fetches[i].stage = "responded"
    /\ fetches' = [fetches EXCEPT ![i].stage = "thenDone",
                                  ![i].afterReject = (promises[fetches[i].h] = "rejected")]
    /\ data' = IF HasData(fetches[i])
               THEN configInitialized(data, fetches[i].body, fetches[i].lang)
               ELSE data
    /\ writes' = IF HasData(fetches[i]) THEN CountWrite(writes, fetches[i].lang) ELSE writes
    /\ UNCHANGED <<configAttr, langAttr, initializePromise, promises, allState,
                   isInitialized, ready, readyThrew, returned, initCalls, current>>

\* lines 113-117: the catch callback, skipped when the then callback returned;
\* either way the promise handed to $q.all is fulfilled
\* faulty variant of CatchEffect: the failure is logged and not signalled
CatchLogsOnly(ps, f) == ps

CatchEffect(ps, f) == IF f.ok THEN ps ELSE Settle(ps, f.h, "rejected")

FetchCatch(i) ==
    /\ fetches[i].stage = "thenDone"
    /\ fetches' = [fetches EXCEPT ![i].stage = "done"]
    /\ promises' = CatchEffect(promises, fetches[i])
    /\ UNCHANGED <<configAttr, langAttr, initializePromise, allState, isInitialized,
                   data, writes, ready, readyThrew, returned, initCalls, current>>

\* faulty variant of JoinReady: the join resolves with the first finished chain
JoinAny(h) == \E i \in 1..Len(fetches) : fetches[i].h = h /\ fetches[i].stage = "done"

\* line 124: every promise handed to $q.all is fulfilled
JoinReady(h) == \A i \in 1..Len(fetches) : fetches[i].h = h => fetches[i].stage = "done"

\* line 124: $q.all(promises) resolves
AllResolve(h) ==
    /\ allState[h] = "waiting"
    /\ JoinReady(h)
    /\ allState' = [allState EXCEPT ![h] = "resolved"]
    /\ UNCHANGED <<configAttr, langAttr, initializePromise, promises, isInitialized,
                   data, writes, fetches, ready, readyThrew, returned, initCalls,
                   current>>

\* lines 124-128: the then callback of the join
AllThen(h) ==
    /\ allState[h] = "resolved"
    /\ allState' = [allState EXCEPT ![h] = "done"]
    /\ isInitialized' = TRUE
    /\ promises' = Settle(promises, h, "fulfilled")
    /\ UNCHANGED <<configAttr, langAttr, initializePromise, data, writes, fetches,
                   ready, readyThrew, returned, initCalls, current>>

-----------------------------------------------------------------------------
(* ready(nextPromises): initializePromise.then(() => $q.all(nextPromises)).catch(log) *)
(* ready() reads initializePromise and writes nothing the service keeps, so its    *)
(* calls do not affect each other; the model follows one call, made at any time.   *)

\* the awaitables a caller passes: all pending, settled later by their owners
ExtraLists == {[i \in 1..n |-> "pending"] : n \in 0..MaxExtra}

\* lines 163-164: initializePromise.then on an undefined initializePromise is a
\* TypeError thrown to the caller; otherwise a new handle is returned
Ready(extra) ==
    /\ ready.stage = "notCalled"
    /\ IF initializePromise = 0
       THEN /\ readyThrew' = TRUE
            /\ UNCHANGED ready
       ELSE /\ ready' = [h |-> initializePromise, extra |-> extra,
                         stage |-> "waitInit", state |-> "pending"]
            /\ UNCHANGED readyThrew
    /\ UNCHANGED <<configAttr, langAttr, initializePromise, promises, allState,
                   isInitialized, data, writes, fetches, returned, initCalls, current>>

\* the owner of an awaitable of nextPromises settles it
SettleExtra(i, s) ==
    /\ i \in DOMAIN ready.extra
    /\ ready.extra[i] = "pending"
    /\ ready' = [ready EXCEPT !.extra[i] = s]
    /\ UNCHANGED <<configAttr, langAttr, initializePromise, promises, allState,
                   isInitialized, data, writes, fetches, readyThrew, returned,
                   initCalls, current>>

\* lines 165-168: the then callback runs when the handle fulfilled and starts
\* $q.all(nextPromises); a rejection of the handle passes by it
ThenOutcome(handleState) ==
    IF handleState = "fulfilled" THEN "waitExtras" ELSE "thenRejected"

ReadyThen ==
    /\ ready.stage = "waitInit"
    /\ Settled(promises[ready.h])
    /\ ready' = [ready EXCEPT !.stage = ThenOutcome(promises[ready.h])]
    /\ UNCHANGED <<configAttr, langAttr, initializePromise, promises, allState,
                   isInitialized, data, writes, fetches, readyThrew, returned,
                   initCalls, current>>

\* line 167: $q.all rejects with the first rejection and fulfills when all fulfilled
ExtrasOutcome(extra) ==
    IF \E i \in DOMAIN extra : extra[i] = "rejected" THEN "rejected"
    ELSE IF \A i \in DOMAIN extra : extra[i] = "fulfilled" THEN "fulfilled"
    ELSE "pending"

\* line 167: the promise returned by the then callback settles
ReadyAll ==
    /\ ready.stage = "waitExtras"
    /\ Settled(ExtrasOutcome(ready.extra))
    /\ ready' = [ready EXCEPT !.stage =
                     IF ExtrasOutcome(ready.extra) = "fulfilled"
                     THEN "thenFulfilled" ELSE "thenRejected"]
    /\ UNCHANGED <<configAttr, langAttr, initializePromise, promises, allState,
                   isInitialized, data, writes, fetches, readyThrew, returned,
                   initCalls, current>>

\* faulty variant of CatchOutcome: the catch callback throws the error again
CatchRethrows(stage) == IF stage = "thenRejected" THEN "rejected" ELSE "fulfilled"

\* lines 169-171: the catch callback logs and returns, so the handle of ready is
\* fulfilled after a rejection as well as after a fulfillment
CatchOutcome(stage) == "fulfilled"

ReadyCatch ==
    /\ ready.stage \in {"thenFulfilled", "thenRejected"}
    /\ ready' = [ready EXCEPT !.state = CatchOutcome(ready.stage), !.stage = "settled"]
    /\ UNCHANGED <<configAttr, langAttr, initializePromise, promises, allState,
                   isInitialized, data, writes, fetches, readyThrew, returned,
                   initCalls, current>>

-----------------------------------------------------------------------------
(* getCurrent() *)

\* faulty variant of CurrentLang: the proposed language is not consulted
CommittedLang(proposed, used) == PrimarySubtag(used)

\* line 154: ($translate.proposedLanguage() || $translate.use()).split('-')[0]
CurrentLang(proposed, used) ==
    PrimarySubtag(IF AttrTruthy(proposed) THEN proposed.text ELSE used)

\* line 155: service.data[currentLang], undefined when the key is missing
CurrentResult(proposed, used) ==
    LET key == CurrentLang(proposed, used)
    IN [key |-> key, found |-> key \in DOMAIN data,
        value |-> IF key \in DOMAIN data THEN data[key] ELSE Null]

GetCurrent(proposed, used) ==
    /\ current' = CurrentResult(proposed, used)
    /\ UNCHANGED <<configAttr, langAttr, initializePromise, promises, allState,
                   isInitialized, data, writes, fetches, ready, readyThrew,
                   returned, initCalls>>

-----------------------------------------------------------------------------
Next ==
    \/ Initialize
    \/ \E i \in 1..Len(fetches), ok \in BOOLEAN, body \in ResponseBodies :
           HttpRespond(i, ok, body)
    \/ \E i \in 1..Len(fetches) : FetchThen(i)
    \/ \E i \in 1..Len(fetches) : FetchCatch(i)
    \/ \E h \in 1..Len(promises) : AllResolve(h)
    \/ \E h \in 1..Len(promises) : AllThen(h)
    \/ \E extra \in ExtraLists : Ready(extra)
    \/ \E i \in 1..MaxExtra, s \in {"fulfilled", "rejected"} : SettleExtra(i, s)
    \/ ReadyThen
    \/ ReadyAll
    \/ ReadyCatch
    \/ \E p \in ProposedLanguages, u \in LanguageTags : GetCurrent(p, u)

Spec == Init /\ [][Next]_vars

\* The event loop runs every queued callback, and every issued request settles.
FairSpec ==
    /\ Spec
    /\ WF_vars(\E i \in 1..Len(fetches), ok \in BOOLEAN, body \in ResponseBodies :
                   HttpRespond(i, ok, body))
    /\ WF_vars(\E i \in 1..Len(fetches) : FetchThen(i))
    /\ WF_vars(\E i \in 1..Len(fetches) : FetchCatch(i))
    /\ WF_vars(\E h \in 1..Len(promises) : AllResolve(h))
    /\ WF_vars(\E h \in 1..Len(promises) : AllThen(h))
    /\ WF_vars(ReadyThen)
    /\ WF_vars(ReadyAll)
    /\ WF_vars(ReadyCatch)

TypeOK ==
    /\ initializePromise \in 0..Len(promises)
    /\ isInitialized \in BOOLEAN
    /\ Len(allState) = Len(promises)
    /\ DOMAIN data \subseteq LangKeys

-----------------------------------------------------------------------------
(* Properties *)

\* the handle of the service, once initialize() was called
HandleState == IF initializePromise = 0 THEN "none" ELSE promises[initializePromise]

\* C1: however many times initialize() is called, and whenever, every call returns
\* the same handle, the resolver runs once, and the fetches issued are at most one
\* per entry of the language list, entry by entry.
C1_InitializeOnce ==
    /\ Cardinality(returned) <= 1
    /\ Len(promises) <= 1
    /\ Len(fetches) <= Len(ResolvedLangs)
    /\ \A i \in 1..Len(fetches) : fetches[i].lang = ResolvedLangs[i]

\* initialize() was called again after both fetches of a batch had finished
C1_Witness ==
    /\ initCalls = MaxInitCalls
    /\ Len(fetches) = 2
    /\ \A i \in 1..Len(fetches) : fetches[i].stage = "done"
    /\ returned = {1}

\* C2: with no config source declared, initialize() stores the defaults alone under
\* "en", issues no fetch, and its handle is fulfilled when the call returns.
C2_AbsentCompletes ==
    (~AttrTruthy(configAttr) /\ initializePromise # 0) =>
        /\ DOMAIN data = {"en"}
        /\ data["en"] = MergedConfig(EmptyObj)
        /\ fetches = <<>>
        /\ HandleState = "fulfilled"

\* C3: when every issued fetch settles and every queued callback runs, a call of
\* ready([]) made after initialize() eventually settles.
C3_ReadySettles ==
    [](ready.stage # "notCalled" /\ ready.extra = <<>> => <>(ready.state # "pending"))

\* C4: the handle of ready(extra) is settled only when the initialization handle
\* and every awaitable of extra are settled.
C4_ReadyWaitsForAll ==
    ready.state # "pending" =>
        /\ Settled(promises[ready.h])
        /\ \A i \in DOMAIN ready.extra : Settled(ready.extra[i])

\* C5: the handle returned by ready(extra) is never rejected.
C5_ReadyNeverRejected == ready.state # "rejected"

\* ready settled after the initialization handle rejected, or after an awaitable of
\* extra rejected
C5_Witness ==
    /\ ready.state = "fulfilled"
    /\ \/ promises[ready.h] = "rejected"
       \/ \E i \in DOMAIN ready.extra : ready.extra[i] = "rejected"

\* a fetch whose request failed, and one whose catch callback has run
Failed(f) == f.stage # "inflight" /\ ~f.ok
FailureSignalled(f) == f.stage = "done" /\ ~f.ok

\* C6: when a fetch has failed the initialization handle is not fulfilled, and it
\* is rejected from the moment the failure is signalled, whatever the order in
\* which the fetches complete and whatever was stored for the other languages.
C6_FailureRejects ==
    \A i \in 1..Len(fetches) :
        /\ Failed(fetches[i]) => promises[fetches[i].h] # "fulfilled"
        /\ FailureSignalled(fetches[i]) => promises[fetches[i].h] = "rejected"

\* one fetch failed, another one stored its language before the failure was
\* signalled, and the join of the batch has run its callback
C6_Witness ==
    /\ initializePromise # 0
    /\ allState[initializePromise] = "done"
    /\ \E i, j \in 1..Len(fetches) :
           /\ FailureSignalled(fetches[i])
           /\ fetches[j].stage = "done" /\ fetches[j].ok /\ Truthy(fetches[j].body)
           /\ ~fetches[j].afterReject
           /\ fetches[j].lang \in DOMAIN data

\* C7 as stated: after the initialization handle has rejected, no ConfigStore entry
\* is written or changed.
C7_NoWriteAfterReject ==
    [][HandleState = "rejected" => data' = data /\ writes' = writes]_vars

\* C7 as amended: after the handle has rejected it stays rejected, and the only
\* writes to ConfigStore are those of the remaining fetches that return data, each
\* to the entry of its own language.
C7_LateWritesAreFetchResults ==
    [][HandleState = "rejected" =>
          /\ HandleState' = "rejected"
          /\ (data' # data \/ writes' # writes) =>
                \E i \in 1..Len(fetches) :
                    /\ fetches[i].stage = "responded" /\ fetches'[i].stage = "thenDone"
                    /\ fetches[i].ok /\ Truthy(fetches[i].body)
                    /\ data' = [k \in DOMAIN data \cup {fetches[i].lang} |->
                                   IF k = fetches[i].lang
                                   THEN Extend(Extend(EmptyObj, configDefaults),
                                               fetches[i].body)
                                   ELSE data[k]]
                    /\ writes' = [writes EXCEPT ![fetches[i].lang] = @ + 1]]_vars

\* a fetch stored its language after the handle had rejected
C7_Witness ==
    /\ HandleState = "rejected"
    /\ \E j \in 1..Len(fetches) :
           /\ fetches[j].afterReject /\ fetches[j].ok /\ Truthy(fetches[j].body)
           /\ fetches[j].lang \in DOMAIN data

\* C8 as stated: whenever the initialization handle is fulfilled, ConfigStore holds
\* an entry for every language of the requested list.
C8_FulfilledHasAllLanguages ==
    HandleState = "fulfilled" =>
        \A i \in 1..Len(ResolvedLangs) : ResolvedLangs[i] \in DOMAIN data

\* C8 as amended: whenever the handle is fulfilled, every fetch of the batch has
\* run its callbacks, ConfigStore holds an entry for every language whose fetch
\* returned data and, when the source parsed as JSON, the entry "en"; it holds no
\* other entry.
C8_FulfilledHasFetchedLanguages ==
    HandleState = "fulfilled" =>
        /\ \A i \in 1..Len(fetches) : fetches[i].stage = "done" /\ fetches[i].ok
        /\ DOMAIN data =
              {fetches[i].lang : i \in {j \in 1..Len(fetches) : Truthy(fetches[j].body)}}
              \cup (IF fromJson(configAttr.text).ok THEN {"en"} ELSE {})

\* the handle is fulfilled after one fetch returned data and the other none
C8_Witness ==
    /\ HandleState = "fulfilled"
    /\ \E i, j \in 1..Len(fetches) :
           /\ Truthy(fetches[i].body) /\ fetches[i].lang \in DOMAIN data
           /\ fetches[j].ok /\ ~Truthy(fetches[j].body) /\ fetches[j].lang \notin DOMAIN data

\* C9: after the initialization handle has fulfilled, no step changes ConfigStore.
C9_StoreFrozenAfterFulfill ==
    [][HandleState = "fulfilled" => data' = data /\ writes' = writes]_vars

\* the handle is fulfilled with both languages stored, and initialize(), ready()
\* and getCurrent() were called
C9_Witness ==
    /\ HandleState = "fulfilled"
    /\ DOMAIN data = {"en", "fr"}
    /\ initCalls = MaxInitCalls
    /\ ready.state = "fulfilled"
    /\ current.found

\* C10: every ConfigStore key is assigned at most once.
C10_WrittenOnce == \A l \in LangKeys : writes[l] <= 1

\* the declared source is valid JSON, and the resolver has run
InlineDeclared == AttrTruthy(configAttr) /\ fromJson(configAttr.text).ok

\* C11: when the declared source parses as JSON, whatever its value and whatever
\* the language list, no fetch is issued, "en" is the only key written, and the
\* handle is fulfilled once the join has run.
C11_InlineNeverFetches ==
    (InlineDeclared /\ initializePromise # 0) =>
        /\ fetches = <<>>
        /\ DOMAIN data = {"en"}
        /\ writes["fr"] = 0
        /\ allState[initializePromise] = "done" => HandleState = "fulfilled"

\* the declared source is a URL template: a text that is not JSON
TemplateDeclared == AttrTruthy(configAttr) /\ ~fromJson(configAttr.text).ok

\* the set of codes of a language list
CodesOf(langs) == {langs[i] : i \in 1..Len(langs)}

\* C12: for a URL template and a language list L, initialize() issues in one step
\* exactly one fetch per entry of L, each to the template with the placeholder
\* replaced by that entry's code; and once all of them succeeded with data and ran
\* their callbacks, the keys of ConfigStore are exactly the codes of L.
C12_OneFetchPerLanguage ==
    (TemplateDeclared /\ initializePromise # 0) =>
        /\ Len(fetches) = Len(ResolvedLangs)
        /\ \A i \in 1..Len(fetches) :
               /\ fetches[i].lang = ResolvedLangs[i]
               /\ fetches[i].url = <<Raw("cfg."), Raw(ResolvedLangs[i]), Raw(".json")>>
        /\ (\A i \in 1..Len(fetches) :
               fetches[i].stage \in {"thenDone", "done"} /\ fetches[i].ok
               /\ Truthy(fetches[i].body))
           => DOMAIN data = CodesOf(ResolvedLangs)

\* both fetches of the list en, fr succeeded with data, the one for fr first
C12_Witness ==
    /\ TemplateDeclared
    /\ Len(fetches) = 2
    /\ fetches[1].lang = "en" /\ fetches[2].lang = "fr"
    /\ fetches[1].stage = "responded" /\ fetches[1].ok /\ Truthy(fetches[1].body)
    /\ fetches[2].stage = "done" /\ fetches[2].ok /\ Truthy(fetches[2].body)
    /\ DOMAIN data = {"fr"}

RECURSIVE MergeOver(_, _, _)

\* the merge of config c over base d as the specification words it: override wins,
\* mappings are merged key by key recursively, any other value is replaced; with
\* byIndex, arrays are merged index by index in the same way
MergeOver(d, c, byIndex) ==
    IF d.t = "obj" /\ c.t = "obj"
    THEN Obj([k \in DOMAIN d.o \cup DOMAIN c.o |->
                 IF k \notin DOMAIN c.o THEN d.o[k]
                 ELSE IF k \notin DOMAIN d.o THEN c.o[k]
                 ELSE MergeOver(d.o[k], c.o[k], byIndex)])
    ELSE IF byIndex /\ d.t = "arr" /\ c.t = "arr"
    THEN Arr([i \in 1..(IF Len(d.a) > Len(c.a) THEN Len(d.a) ELSE Len(c.a)) |->
                 IF i > Len(c.a) THEN d.a[i]
                 ELSE IF i > Len(d.a) THEN c.a[i]
                 ELSE MergeOver(d.a[i], c.a[i], byIndex)])
    ELSE c

\* the declared source is an inline JSON mapping, and getCurrent() found "en"
CurrentOfInlineMapping ==
    /\ InlineDeclared
    /\ fromJson(configAttr.text).val.t = "obj"
    /\ current.key = "en"
    /\ current.found

LangsUndeclared == langAttr \in {NoAttr, Attr(<<Raw("en,fr")>>)}

\* C14: parse errors do not fail initialization. A config attribute that is not
\* JSON writes nothing at parse time and is used, unchanged but for the placeholder,
\* as the URL of every fetch; a language-list attribute that is absent or is not
\* JSON gives fetches for exactly "en", "fr"; and the handle is rejected only when a
\* fetch failed.
C14_ParseErrorsRecovered ==
    initializePromise # 0 =>
        /\ configAttr = Attr(TemplateText) =>
              /\ \A i \in 1..Len(fetches) :
                     fetches[i].url = <<Raw("cfg."), Raw(fetches[i].lang), Raw(".json")>>
              /\ (\A i \in 1..Len(fetches) : fetches[i].stage \in {"inflight", "responded"})
                     => DOMAIN data = {}
              /\ Len(fetches) = 0 <=> langAttr = Attr(LangList(<<>>))
        /\ (LangsUndeclared /\ configAttr \in {Attr(TemplateText), Attr(<<Lit("null")>>)}) =>
              /\ Len(fetches) = 2
              /\ fetches[1].lang = "en" /\ fetches[2].lang = "fr"
        /\ HandleState = "rejected" => \E i \in 1..Len(fetches) : ~fetches[i].ok

\* a template with a language list that is not JSON: both default fetches were
\* issued, nothing is stored yet, and the handle is pending
C14_Witness ==
    /\ configAttr = Attr(TemplateText)
    /\ langAttr = Attr(<<Raw("en,fr")>>)
    /\ initializePromise # 0
    /\ Len(fetches) = 2
    /\ DOMAIN data = {}
    /\ HandleState = "pending"

\* C15: a handle leaves the pending state at most once: once rejected or fulfilled
\* its state never changes, also when several fetches fail and the join of the batch
\* runs afterwards; and a waiter on the handle observes the settlement once.
C15_SettlesOnce ==
    [][/\ \A h \in 1..Len(promises) : Settled(promises[h]) => promises'[h] = promises[h]
       /\ ready.stage \notin {"notCalled", "waitInit"} => ready'.stage # "waitInit"
       /\ ready.stage = "waitInit" /\ ready'.stage # "waitInit" => Settled(promises[ready.h])
      ]_vars

\* both fetches failed, the join ran its callback after them, ready() has observed
\* the rejection, and the handle is rejected
C15_Witness ==
    /\ Len(fetches) = 2
    /\ \A i \in 1..Len(fetches) : FailureSignalled(fetches[i])
    /\ allState[initializePromise] = "done"
    /\ isInitialized
    /\ ready.stage = "settled"
    /\ HandleState = "rejected"

\* the key getCurrent() is to use: the primary subtag of the proposed language when
\* one is reported, else of the committed language
ExpectedKey(proposed, used) ==
    IF proposed = Attr(<<"fr", "-", "CA">>) THEN "fr"
    ELSE IF used \in {<<"en">>, <<"en", "-", "CA">>} THEN "en"
    ELSE ""

\* C16: getCurrent() looks up the primary subtag of the proposed language when one
\* is reported and of the committed language otherwise, returns the ConfigStore
\* entry under that key, or nothing when the key is missing, and changes neither
\* ConfigStore nor the initialization state (a step that changes the last result
\* of getCurrent() is a call of it).
C16_GetCurrentLooksUp ==
    [][current' # current =>
          /\ data' = data /\ writes' = writes
          /\ promises' = promises /\ isInitialized' = isInitialized
          /\ initializePromise' = initializePromise /\ allState' = allState
          /\ \A p \in ProposedLanguages, u \in LanguageTags :
                 current' = CurrentResult(p, u) =>
                     /\ current'.key = ExpectedKey(p, u)
                     /\ current'.found = (ExpectedKey(p, u) \in DOMAIN data)
                     /\ current'.found => current'.value = data[ExpectedKey(p, u)]
                     /\ ~current'.found => current'.value = Null
      ]_vars

\* getCurrent() was called with the proposed language fr-CA, once finding the
\* entry "fr" and once finding none: here it found the entry while the batch
\* was still running
C16_Witness ==
    /\ current.key = "fr"
    /\ current.found
    /\ current.value = data["fr"]
    /\ "fr" \in DOMAIN data
    /\ HandleState = "pending"

-----------------------------------------------------------------------------
\* the initialization state of the spec, read from the service's two fields
InitState ==
    IF initializePromise = 0 THEN "NotStarted"
    ELSE IF isInitialized THEN "Complete" ELSE "InProgress"

\* C17: the initialization state only moves forward: the initialized flag is set
\* only when every issued fetch has settled and its callbacks have run, the flag
\* is never cleared once set, and once initialize() has stored a handle the
\* state never returns to NotStarted (the stored handle is never replaced).
C17_StateMovesForward ==
    [][/\ isInitialized => isInitialized'
       /\ initializePromise # 0 => initializePromise' = initializePromise
       /\ InitState = "NotStarted" => InitState' \in {"NotStarted", "InProgress"}
       /\ (~isInitialized /\ isInitialized') =>
              /\ InitState = "InProgress"
              /\ \A i \in 1..Len(fetches) : fetches[i].stage = "done"
      ]_vars

\* initialization completed after two fetches were issued and both settled
C17_Witness ==
    /\ InitState = "Complete"
    /\ Len(fetches) = 2
    /\ \A i \in 1..Len(fetches) : fetches[i].stage = "done"

-----------------------------------------------------------------------------
\* C18: ready(extra) does not throw to its caller, also when it is called before
\* the first initialize(): no call of ready() ends with an exception.
C18_ReadyNeverThrows == ~readyThrew

-----------------------------------------------------------------------------
ReadySettled == ready.stage = "settled"

\* the step is the then callback of fetch i storing the data of its response
StoresFetched(i) ==
    /\ fetches[i].stage = "responded"
    /\ fetches'[i].stage = "thenDone"
    /\ HasData(fetches[i])
    /\ data' = configInitialized(data, fetches[i].body, fetches[i].lang)

\* C19 as stated: when the handle returned by ready(extra) has settled, no issued
\* config fetch is still in flight, whether initialization succeeded or a fetch
\* failed while sibling fetches were still pending.
C19_NoFetchInFlightWhenReadySettled ==
    ReadySettled => \A i \in 1..Len(fetches) : fetches[i].stage # "inflight"

\* C19 amended: when the handle of ready(extra) has settled and the initialization
\* handle fulfilled, every issued fetch has settled and run its callbacks; the
\* only changes of ConfigStore after ready has settled happen when the
\* initialization handle rejected, and each of them is a sibling of the failed
\* fetch storing the data of its own response.
C19_SettledAfterFulfilledIsFinal ==
    /\ [](ReadySettled /\ promises[ready.h] = "fulfilled" =>
              \A i \in 1..Len(fetches) : fetches[i].stage = "done")
    /\ [][ReadySettled /\ data' # data =>
              /\ promises[ready.h] = "rejected"
              /\ \E i \in 1..Len(fetches) : StoresFetched(i)
         ]_vars

\* ready has settled after an initialization that fetched two languages with
\* success, and both entries are stored
C19_Witness ==
    /\ ReadySettled
    /\ promises[ready.h] = "fulfilled"
    /\ Len(fetches) = 2
    /\ \A i \in 1..Len(fetches) : fetches[i].stage = "done" /\ HasData(fetches[i])
    /\ {"en", "fr"} \subseteq DOMAIN data

-----------------------------------------------------------------------------
\* every issued fetch has settled and every queued callback of the
\* initialization has run
InitializationAtRest ==
    /\ initializePromise # 0
    /\ \A i \in 1..Len(fetches) : fetches[i].stage = "done"
    /\ allState[initializePromise] \in {"none", "done"}

DistinctCodes ==
    \A i, j \in 1..Len(fetches) : fetches[i].lang = fetches[j].lang => i = j

\* the fetch result of language l carries data
Fetched(l) ==
    \E i \in 1..Len(fetches) :
        fetches[i].lang = l /\ fetches[i].ok /\ Truthy(fetches[i].body)

BodyOf(l) ==
    (CHOOSE f \in {fetches[i] : i \in 1..Len(fetches)} : f.lang = l).body

\* the mapping determined by the source and the per-language fetch results alone
ResultMapping ==
    LET parsed == fromJson(configAttr.text)
        inlineKeys == IF parsed.ok THEN {"en"} ELSE {}
    IN [l \in inlineKeys \cup {k \in LangKeys : Fetched(k)} |->
            IF Fetched(l) THEN MergedConfig(BodyOf(l)) ELSE MergedConfig(parsed.val)]

\* the outcome determined by the per-language fetch results alone
ResultOutcome ==
    IF \E i \in 1..Len(fetches) : ~fetches[i].ok THEN "rejected" ELSE "fulfilled"

\* C20: for a source that is fetched and a language list of distinct codes, once
\* every fetch has completed and every callback has run, ConfigStore and the
\* outcome of the initialization handle are the ones determined by the source and
\* the per-language fetch results, whatever the order of the completions was.
C20_OrderIndependent ==
    (InitializationAtRest /\ fetches # <<>> /\ DistinctCodes) =>
        /\ data = ResultMapping
        /\ HandleState = ResultOutcome

\* the fetches of two languages are complete, one failed and the other one
\* delivered its data after the handle had rejected
C20_Witness ==
    /\ InitializationAtRest
    /\ Len(fetches) = 2
    /\ DistinctCodes
    /\ \E i, j \in 1..Len(fetches) :
           /\ ~fetches[i].ok
           /\ fetches[j].ok /\ Truthy(fetches[j].body) /\ fetches[j].afterReject

====
